---- MODULE Spec2Model ----
(***************************************************************************)
(* Photometric camera-pose estimation of CNN-SLAM (EstimateCameraPose and  *)
(* its CostFunctor) and the line predicates of Cuboid.h, as a state        *)
(* machine.                                                                *)
(*                                                                         *)
(* Numbers.  Matrices and vectors hold integers (the calibration used has  *)
(* unit focal length, rotations are axis-aligned quarter turns), so every  *)
(* product the code forms in CV_32F is exact.  Real-valued results         *)
(* (square roots, quotients) are kept in fixed point: the integer FxOne    *)
(* stands for 1.0.  Rotation vectors and angles are counted in quarter     *)
(* turns (pi/2).                                                           *)
(***************************************************************************)
EXTENDS Integers, Sequences, FiniteSets, TLC

\* ---------------------------------------------------------------- bounds
\* Image width and height range over 2..MaxDim.
MaxDim == 3
\* max_seconds ranges over 0..MaxBudget; one time unit is one solver iteration.
MaxBudget == 1
\* Point coordinates of the line predicates range over 0..MaxCoord.
MaxCoord == 2
\* Fixed-point unit: FxOne stands for 1.0.
FxOne == 64

\* ------------------------------------------------------ program constants
\* Number of residuals the cost function is declared with.
TRACKING_NUM_PT == 3
\* Scale of the Huber loss.
TRACKING_HUBER_DELTA == 1
\* What cvRound gives for an infinity or a NaN (the x86 conversion result).
IntMin == -2147483647 - 1

\* A value not there (an output not written, a local not set) and a value
\* that is: the empty and the one-element sequence.
NoValue == <<>>

Some(v) == <<v>>

\* ------------------------------------------------------------------- state
VARIABLES
  \* arguments of EstimateCameraPose
  imColor, K, invK, refKF, cameraPixelNoise2, max_seconds,
  \* what cv::divide does with a zero divisor in this build
  cvDivByZero,
  \* position in EstimateCameraPose: idle, iterate (inside ceres::Solve), solved
  pc,
  \* the parameter blocks, the solver's clock, cost and termination type
  relRotationRodrigues, relTranslation, clock, cost, termination,
  \* the last evaluation of CostFunctor::operator(): its pose, its locals,
  \* the image places it read, what it wrote to the residual block and the
  \* number of points the mean was taken over
  evalPose, proj2d, proj2dRight, valid, reads, residual, meanCount,
  \* output arguments and return value
  Tcw, rotAngle, transDist, validRatio, retval,
  \* whether an earlier call ended away from the identity
  prevMoved,
  \* the four points given to the line predicates and their results
  pts, isParallel, intersection

inputVars == <<imColor, K, invK, refKF, cameraPixelNoise2, max_seconds, cvDivByZero>>

solverVars == <<relRotationRodrigues, relTranslation, clock, cost, termination>>

evalVars == <<evalPose, proj2d, proj2dRight, valid, reads, residual, meanCount>>

outVars == <<Tcw, rotAngle, transDist, validRatio, retval>>

geomVars == <<pts, isParallel, intersection>>

vars == <<inputVars, pc, solverVars, evalVars, outVars, prevMoved, geomVars>>

\* ------------------------------------------------------- linear algebra
Vec3Add(a, b) == <<a[1] + b[1], a[2] + b[2], a[3] + b[3]>>

Vec3Scale(s, a) == <<s * a[1], s * a[2], s * a[3]>>

\* cv::Mat::t() of a 3x3 matrix.
Transpose(M) ==
  <<<<M[1][1], M[2][1], M[3][1]>>,
    <<M[1][2], M[2][2], M[3][2]>>,
    <<M[1][3], M[2][3], M[3][3]>>>>

\* A 1x3 row times a 3x3 matrix (one row of an Nx3 * 3x3 product).
RowTimesMat(v, M) ==
  <<v[1] * M[1][1] + v[2] * M[2][1] + v[3] * M[3][1],
    v[1] * M[1][2] + v[2] * M[2][2] + v[3] * M[3][2],
    v[1] * M[1][3] + v[2] * M[2][3] + v[3] * M[3][3]>>

\* Product of two 4x4 matrices.
Row4TimesMat(a, B) ==
  <<a[1] * B[1][1] + a[2] * B[2][1] + a[3] * B[3][1] + a[4] * B[4][1],
    a[1] * B[1][2] + a[2] * B[2][2] + a[3] * B[3][2] + a[4] * B[4][2],
    a[1] * B[1][3] + a[2] * B[2][3] + a[3] * B[3][3] + a[4] * B[4][3],
    a[1] * B[1][4] + a[2] * B[2][4] + a[3] * B[3][4] + a[4] * B[4][4]>>

MatMul4(A, B) ==
  <<Row4TimesMat(A[1], B), Row4TimesMat(A[2], B),
    Row4TimesMat(A[3], B), Row4TimesMat(A[4], B)>>

Identity3 == <<<<1, 0, 0>>, <<0, 1, 0>>, <<0, 0, 1>>>>

\* Cosine and sine of k quarter turns.
CosQ(k) == CASE k % 4 = 0 -> 1 [] k % 4 = 1 -> 0 [] k % 4 = 2 -> -1 [] OTHER -> 0

SinQ(k) == CASE k % 4 = 0 -> 0 [] k % 4 = 1 -> 1 [] k % 4 = 2 -> 0 [] OTHER -> -1

\* cv::Rodrigues on an axis-aligned rotation vector (quarter turns).
Rodrigues(r) ==
  IF r[3] # 0 THEN <<<<CosQ(r[3]), -SinQ(r[3]), 0>>,
                     <<SinQ(r[3]), CosQ(r[3]), 0>>,
                     <<0, 0, 1>>>>
  ELSE IF r[2] # 0 THEN <<<<CosQ(r[2]), 0, SinQ(r[2])>>,
                          <<0, 1, 0>>,
                          <<-SinQ(r[2]), 0, CosQ(r[2])>>>>
  ELSE IF r[1] # 0 THEN <<<<1, 0, 0>>,
                          <<0, CosQ(r[1]), -SinQ(r[1])>>,
                          <<0, SinQ(r[1]), CosQ(r[1])>>>>
  ELSE Identity3

\* Largest k with k * k <= n, by bisection on lo..hi.
RECURSIVE ISqrtIn(_, _, _)
ISqrtIn(n, lo, hi) ==
  IF lo >= hi THEN lo
  ELSE LET mid == (lo + hi + 1) \div 2
       IN  IF mid * mid <= n THEN ISqrtIn(n, mid, hi) ELSE ISqrtIn(n, lo, mid - 1)

\* 46340 is the largest root a 32-bit square allows.
ISqrt(n) == ISqrtIn(n, 0, IF n < 46340 THEN n ELSE 46340)

\* cv::sqrt of an integer-valued float, in fixed point.
SqrtFx(n) == ISqrt(n * FxOne * FxOne)

\* The sequence <<F(1), ..., F(n)>>, one entry per row of an Nx1 array.
RECURSIVE Rows(_, _)
Rows(F(_), n) == IF n = 0 THEN <<>> ELSE Append(Rows(F, n - 1), F(n))

RECURSIVE SumSeq(_)
SumSeq(s) == IF s = <<>> THEN 0 ELSE Head(s) + SumSeq(Tail(s))

\* ------------------------------------------------------------ diagnostics
\* RotationAngle: acos((trace(R) - 1) / 2), in quarter turns.
RotationAngle(R) ==
  LET c2 == R[1][1] + R[2][2] + R[3][3] - 1
  IN  CASE c2 = 2 -> 0 [] c2 = 0 -> 1 [] OTHER -> 2

\* TranslationDist: cv::norm of the translation, in fixed point.
TranslationDist(t) == SqrtFx(t[1] * t[1] + t[2] * t[2] + t[3] * t[3])

\* ---------------------------------------------------------- float to int
\* n / d rounded to the nearest integer, ties to even (cvRound), for d > 0.
RoundHalfEven(n, d) ==
  LET q == n \div d
      r == n % d
  IN  IF 2 * r < d THEN q
      ELSE IF 2 * r > d THEN q + 1
      ELSE IF q % 2 = 0 THEN q ELSE q + 1

\* The float quotient n / d followed by convertTo(CV_32S).  A zero divisor
\* gives 0 where cv::divide defines x / 0 = 0, and IntMin where it follows
\* IEEE (infinity or NaN, then cvRound): dz names which the build does.
DivToInt(n, d, dz) ==
  IF d = 0 THEN (IF dz = "zero" THEN 0 ELSE IntMin)
  ELSE IF d < 0 THEN RoundHalfEven(-n, -d)
  ELSE RoundHalfEven(n, d)

\* ------------------------------------------------------------ projection
\* One row of (repeat(depth, 1, 3).mul(homo) * invKt * Rt + tt) * Kmat,
\* divided by its third column and converted to CV_32S: the pixel <<u, v>>.
ProjectRow(h, depth, invKt, Rt, tt, Kmat, dz) ==
  LET p3 == RowTimesMat(
              Vec3Add(RowTimesMat(RowTimesMat(Vec3Scale(depth, h), invKt), Rt), tt),
              Kmat)
  IN  <<DivToInt(p3[1], p3[3], dz), DivToInt(p3[2], p3[3], dz)>>

NumPts(kf) == Len(kf.mHighGradPtDepth)

\* proj2d of the functor: r is the rotation vector, t the translation.
FunctorProj2d(kf, Kt, invKt, r, t, dz) ==
  Rows(LAMBDA i :
     ProjectRow(kf.mHighGradPtHomo2dCoord[i], kf.mHighGradPtDepth[i],
                invKt, Transpose(Rodrigues(r)), t, Kt, dz),
       NumPts(kf))

\* proj2dRight of the functor: the same with depth + sqrt(uncertainty).
FunctorProj2dRight(kf, Kt, invKt, r, t, dz) ==
  Rows(LAMBDA i :
     ProjectRow(kf.mHighGradPtHomo2dCoord[i],
                kf.mHighGradPtDepth[i] + kf.mHighGradPtSqrtUncertainty[i],
                invKt, Transpose(Rodrigues(r)), t, Kt, dz),
       NumPts(kf))

\* ---------------------------------------------------------- validity mask
ValidMask_primaryOnly(p, pr, im) ==
  Rows(LAMBDA i :
     /\ p[i][1] >= 0 /\ p[i][1] < im.cols
     /\ p[i][2] >= 0 /\ p[i][2] < im.rows,
       Len(p))

ValidMask_swapped(p, pr, im) ==
  Rows(LAMBDA i :
     /\ p[i][1] >= 0 /\ p[i][1] < im.rows
     /\ p[i][2] >= 0 /\ p[i][2] < im.cols
     /\ pr[i][1] >= 0 /\ pr[i][1] < im.rows
     /\ pr[i][2] >= 0 /\ pr[i][2] < im.cols,
       Len(p))

\* valid of the functor, after the eight comparisons are and-ed together.
ValidMask(p, pr, im) ==
  Rows(LAMBDA i :
     /\ p[i][1] >= 0 /\ p[i][1] < im.cols
     /\ p[i][2] >= 0 /\ p[i][2] < im.rows
     /\ pr[i][1] >= 0 /\ pr[i][1] < im.cols
     /\ pr[i][2] >= 0 /\ pr[i][2] < im.rows,
       Len(p))

\* ---------------------------------------------------------------- sampling
\* imColor.at<Vec3b>(row, col).  Outside the image the read is of whatever
\* memory lies there: g.
ImAt(im, row, col, g) ==
  IF row >= 0 /\ row < im.rows /\ col >= 0 /\ col < im.cols
  THEN im.data[row + 1][col + 1]
  ELSE <<g, g, g>>

\* The (row, col) places of imColor the sampling loop reads.
SampledPlaces(mask, p, pr) ==
  {<<p[i][2], p[i][1]>> : i \in {j \in DOMAIN mask : mask[j]}}
  \cup {<<pr[i][2], pr[i][1]>> : i \in {j \in DOMAIN mask : mask[j]}}

\* pixels (or pixelsRight) after the sampling loop: a row of an invalid
\* point is never written and keeps what the fresh buffer held, g.
SampleBuffer(mask, p, im, g) ==
  Rows(LAMBDA i :
     IF mask[i] THEN ImAt(im, p[i][2], p[i][1], g) ELSE <<g, g, g>>,
       Len(mask))

\* ----------------------------------------------------------------- residual
\* CV_8U subtraction saturates at 0.
SatSub8(a, b) == IF a > b THEN a - b ELSE 0

\* res: sqrt of the row sums of (mHighGradPtPixels - pixels)^2.
PhotometricRes(ref, pix) ==
  Rows(LAMBDA i :
     SqrtFx(SatSub8(ref[i][1], pix[i][1]) * SatSub8(ref[i][1], pix[i][1])
            + SatSub8(ref[i][2], pix[i][2]) * SatSub8(ref[i][2], pix[i][2])
            + SatSub8(ref[i][3], pix[i][3]) * SatSub8(ref[i][3], pix[i][3])),
       Len(pix))

\* var: sqrt((resRight - res)^2 + 2 * cameraPixelNoise2).
Variance(res, resRight, noise2) ==
  Rows(LAMBDA i :
     ISqrt((resRight[i] - res[i]) * (resRight[i] - res[i])
           + 2 * noise2 * FxOne * FxOne),
       Len(res))

\* regRes = res / var.
RegRes(res, var) == Rows(LAMBDA i : (res[i] * FxOne) \div var[i], Len(res))

RECURSIVE SumWhere(_, _, _)
SumWhere(x, mask, n) ==
  IF n = 0 THEN 0
  ELSE (IF mask[n] THEN x[n] ELSE 0) + SumWhere(x, mask, n - 1)

CountNonZero(mask) == Cardinality({i \in DOMAIN mask : mask[i]})

MaskedMean_unmasked(x, mask) ==
  SumWhere(x, Rows(LAMBDA i : TRUE, Len(x)), Len(x)) \div Len(x)

\* cv::mean(regRes, valid)[0]: 0 when the mask selects nothing.
MaskedMean(x, mask) ==
  IF CountNonZero(mask) = 0 THEN 0
  ELSE SumWhere(x, mask, Len(x)) \div CountNonZero(mask)

\* The loop that sets the invalid points to the mean residual.
SubstituteMean(x, mask, meanRes) ==
  Rows(LAMBDA i : IF mask[i] THEN x[i] ELSE meanRes, Len(x))

\* What operator() copies into the residual block, for rotation vector r,
\* translation t, fresh-buffer content g and division build dz.
FunctorResidual(im, kf, Kt, invKt, noise2, r, t, g, dz) ==
  LET p      == FunctorProj2d(kf, Kt, invKt, r, t, dz)
      pr     == FunctorProj2dRight(kf, Kt, invKt, r, t, dz)
      valid_ == ValidMask(p, pr, im)
      res    == PhotometricRes(kf.mHighGradPtPixels, SampleBuffer(valid_, p, im, g))
      resR   == PhotometricRes(kf.mHighGradPtPixels, SampleBuffer(valid_, pr, im, g))
      reg    == RegRes(res, Variance(res, resR, noise2))
  IN  SubstituteMean(reg, valid_, MaskedMean(reg, valid_))

\* ------------------------------------------------------------------ solver
\* The block of TRACKING_NUM_PT residuals the solver reads: the entries
\* operator() wrote, then whatever the block held (gf) where it wrote none.
ResidualBlock(written, gf) ==
  Rows(LAMBDA i : IF i <= Len(written) THEN written[i] ELSE gf, TRACKING_NUM_PT)

\* Huber loss on the squared norm s (fixed point).
HuberRho(s) ==
  LET b == TRACKING_HUBER_DELTA * TRACKING_HUBER_DELTA * FxOne
  IN  IF s <= b THEN s ELSE 2 * TRACKING_HUBER_DELTA * ISqrt(s * FxOne) - b

\* Cost of one residual block: rho(|block|^2) / 2.
BlockCost(block) ==
  HuberRho(SumSeq(Rows(LAMBDA i : block[i] * block[i], Len(block))) \div FxOne) \div 2

\* Step acceptance of the trust-region loop: a candidate is kept when it
\* lowers the cost.
StepAccepted(candCost, curCost) == candCost < curCost

DeadlineReached_late(elapsed, budget) == elapsed > budget

\* The deadline test made between iterations.
DeadlineReached(elapsed, budget) == elapsed >= budget

\* ------------------------------------------------------------------ driver
\* The start of the search: relRotationRodrigues and relTranslation.
InitialRotation == <<0, 0, 0>>

InitialTranslation_stale == relTranslation

InitialTranslation == <<0, 0, 0>>

\* Trel: the 4x4 transform built from Rrel and relTranslation.
TrelOf(R, t) ==
  <<<<R[1][1], R[1][2], R[1][3], t[1]>>,
    <<R[2][1], R[2][2], R[2][3], t[2]>>,
    <<R[3][1], R[3][2], R[3][3], t[3]>>,
    <<0, 0, 0, 1>>>>

\* Tcw = Trel * pRefKF->GetPose().
WorldPose(Trel, kfPose) == MatMul4(Trel, kfPose)

\* proj2d of the validRatio block.
DriverProj2d(kf, Kmat, Rrel, t, dz) ==
  Rows(LAMBDA i :
     ProjectRow(kf.mHighGradPtHomo2dCoord[i], kf.mHighGradPtDepth[i],
                Transpose(kf.mInvK), Transpose(Rrel), t, Kmat, dz),
       NumPts(kf))

\* valid of the validRatio block.
DriverValidMask(p, im) ==
  Rows(LAMBDA i :
     /\ p[i][1] >= 0 /\ p[i][1] < im.rows
     /\ p[i][2] >= 0 /\ p[i][2] < im.cols,
       Len(p))

\* *validRatio = sum(valid) / 255 / valid.rows, in fixed point.
DriverValidRatio(im, kf, Kmat, Rrel, t, dz) ==
  (CountNonZero(DriverValidMask(DriverProj2d(kf, Kmat, Rrel, t, dz), im)) * FxOne)
    \div NumPts(kf)

\* The return value: summary.final_cost / TRACKING_NUM_PT.
NormalizedCost(finalCost) == finalCost \div TRACKING_NUM_PT

\* ------------------------------------------------------------------ inputs
\* Pinhole calibration with unit focal length and principal point (cx, cy).
KOf(cx, cy) == <<<<1, 0, cx>>, <<0, 1, cy>>, <<0, 0, 1>>>>

InvKOf(cx, cy) == <<<<1, 0, -cx>>, <<0, 1, -cy>>, <<0, 0, 1>>>>

\* The colour of image place (row, col); data holds the rows from row 0 on.
Texture(row, col) == <<(40 * row + 90 * col) % 256, 200 - 60 * col, 30 * row>>

Image(h, w) ==
  [rows |-> h, cols |-> w,
   data |-> Rows(LAMBDA r : Rows(LAMBDA c : Texture(r - 1, c - 1), w), h)]

Dims == 2..MaxDim

\* High-gradient points a keyframe is made of.
PointPool ==
  <<[h |-> <<0, 0, 1>>, depth |-> 1, unc |-> 1, pix |-> <<200, 100, 50>>],
    [h |-> <<1, 1, 1>>, depth |-> 2, unc |-> 0, pix |-> <<0, 255, 30>>],
    [h |-> <<2, 0, 1>>, depth |-> 1, unc |-> 1, pix |-> <<90, 90, 90>>]>>

\* World pose of the keyframes: a quarter turn about z and a translation.
KeyFramePose ==
  <<<<0, -1, 0, 1>>, <<1, 0, 0, 2>>, <<0, 0, 1, 3>>, <<0, 0, 0, 1>>>>

Min(S) == CHOOSE x \in S : \A y \in S : x <= y

RECURSIVE PointsOf(_)
PointsOf(S) ==
  IF S = {} THEN <<>> ELSE <<PointPool[Min(S)]>> \o PointsOf(S \ {Min(S)})

\* The keyframe holding the pool points with indices S, in index order.
KeyFrameOf(S, invKmat) ==
  LET pool == PointsOf(S)
  IN  [mHighGradPtHomo2dCoord     |-> Rows(LAMBDA i : pool[i].h, Len(pool)),
       mHighGradPtDepth           |-> Rows(LAMBDA i : pool[i].depth, Len(pool)),
       mHighGradPtSqrtUncertainty |-> Rows(LAMBDA i : pool[i].unc, Len(pool)),
       mHighGradPtPixels          |-> Rows(LAMBDA i : pool[i].pix, Len(pool)),
       mInvK                      |-> invKmat,
       Tcw                        |-> KeyFramePose]

PointSets ==
  {S \in SUBSET (DOMAIN PointPool) : S # {} /\ Cardinality(S) <= TRACKING_NUM_PT}

\* The poses (rotation vector, translation) the solver evaluates: the
\* identity, a quarter turn about z, a shift along x, and a shift along z
\* that brings the points of depth 1 to the camera plane.
Poses ==
  {<<<<0, 0, 0>>, <<0, 0, 0>>>>, <<<<0, 0, 1>>, <<0, 0, 0>>>>,
   <<<<0, 0, 0>>, <<1, 0, 0>>>>, <<<<0, 0, 0>>, <<0, 0, -1>>>>}

\* What a fresh CV_8U buffer may hold, and a stale residual entry.
GarbageBytes == {0, 255}

GarbageResiduals == {0, 2 * FxOne}

DivBuilds == {"zero", "ieee"}

Grid == (0..MaxCoord) \X (0..MaxCoord)

\* ---------------------------------------------------------- line predicates
\* x < 1e-6 for an integer-valued x.
BelowEps(x) == x <= 0

\* IsParallel of Cuboid.h.
IsParallel(A, B, C, D) ==
  BelowEps((A[1] - B[1]) * (C[2] - D[2]) - (A[2] - B[2]) * (C[1] - D[1]))

\* LineIntersection of Cuboid.h: the parallel sentinel (FLT_MAX, FLT_MAX),
\* or the point (xnum / den, ynum / den).
LineIntersection(A, B, C, D) ==
  LET a1 == B[2] - A[2]
      b1 == A[1] - B[1]
      c1 == a1 * A[1] + b1 * A[2]
      a2 == D[2] - C[2]
      b2 == C[1] - D[1]
      c2 == a2 * C[1] + b2 * C[2]
      determinant == a1 * b2 - a2 * b1
  IN  IF determinant = 0
      THEN [sentinel |-> TRUE, xnum |-> 0, ynum |-> 0, den |-> 1]
      ELSE [sentinel |-> FALSE, xnum |-> b2 * c1 - b1 * c2,
            ynum |-> a1 * c2 - a2 * c1, den |-> determinant]

NoEvaluation ==
  /\ evalPose = NoValue /\ proj2d = <<>> /\ proj2dRight = <<>> /\ valid = <<>>
  /\ reads = {} /\ residual = <<>> /\ meanCount = NoValue

NoOutputs ==
  /\ Tcw = NoValue /\ rotAngle = NoValue /\ transDist = NoValue
  /\ validRatio = NoValue /\ retval = NoValue

EstimatorAtRest ==
  /\ imColor = Image(2, 2)
  /\ K = KOf(1, 1)
  /\ invK = InvKOf(1, 1)
  /\ refKF = KeyFrameOf({1}, InvKOf(1, 1))
  /\ cameraPixelNoise2 = 1
  /\ max_seconds = 0
  /\ pc = "idle"
  /\ relRotationRodrigues = <<0, 0, 0>>
  /\ relTranslation = <<0, 0, 0>>
  /\ clock = 0
  /\ cost = NoValue
  /\ termination = "NONE"
  /\ NoEvaluation
  /\ NoOutputs
  /\ prevMoved = FALSE

GeometryAtRest ==
  /\ pts = <<<<0, 0>>, <<0, 0>>, <<0, 0>>, <<0, 0>>>>
  /\ isParallel = NoValue
  /\ intersection = NoValue

Init ==
  /\ EstimatorAtRest
  /\ cvDivByZero \in DivBuilds
  /\ GeometryAtRest

\* ------------------------------------------------------------ caller steps
\* The caller has used the last call's results and lets go of them; the
\* call's frame is gone.
TakeResults ==
  /\ pc = "idle"
  /\ Tcw # NoValue
  /\ Tcw' = NoValue /\ rotAngle' = NoValue /\ transDist' = NoValue
  /\ validRatio' = NoValue /\ retval' = NoValue
  /\ max_seconds' = 0
  /\ relRotationRodrigues' = <<0, 0, 0>>
  /\ relTranslation' = <<0, 0, 0>>
  /\ clock' = 0 /\ cost' = NoValue /\ termination' = "NONE"
  /\ UNCHANGED <<imColor, K, invK, refKF, cameraPixelNoise2, cvDivByZero, pc,
                 evalVars, prevMoved, geomVars>>

\* The caller hands over the next camera image.
NewFrame(h, w) ==
  /\ pc = "idle"
  /\ imColor # Image(h, w)
  /\ Tcw = NoValue
  /\ imColor' = Image(h, w)
  /\ UNCHANGED <<K, invK, refKF, cameraPixelNoise2, max_seconds, cvDivByZero, pc,
                 solverVars, evalVars, outVars, prevMoved, geomVars>>

\* The caller switches to another reference keyframe.
NewKeyFrame(S) ==
  /\ pc = "idle"
  /\ refKF # KeyFrameOf(S, invK)
  /\ Tcw = NoValue
  /\ refKF' = KeyFrameOf(S, invK)
  /\ UNCHANGED <<imColor, K, invK, cameraPixelNoise2, max_seconds, cvDivByZero, pc,
                 solverVars, evalVars, outVars, prevMoved, geomVars>>

\* ------------------------------------------------------ EstimateCameraPose
\* One run of CostFunctor::operator() at pose (r, t); g is what the fresh
\* sample buffers hold.
Evaluate(r, t, g) ==
  LET p  == FunctorProj2d(refKF, Transpose(K), Transpose(invK), r, t, cvDivByZero)
      pr == FunctorProj2dRight(refKF, Transpose(K), Transpose(invK), r, t, cvDivByZero)
      m  == ValidMask(p, pr, imColor)
  IN  /\ evalPose' = <<r, t>>
      /\ proj2d' = p
      /\ proj2dRight' = pr
      /\ valid' = m
      /\ reads' = SampledPlaces(m, p, pr)
      /\ meanCount' = Some(CountNonZero(m))
      /\ residual' = FunctorResidual(imColor, refKF, Transpose(K), Transpose(invK),
                                     cameraPixelNoise2, r, t, g, cvDivByZero)

\* Entry: the parameter blocks are initialised, the problem and the solver
\* options are set up, and ceres::Solve evaluates the cost at the initial
\* parameters.
Call(budget, g, gf) ==
  /\ pc = "idle"
  /\ max_seconds' = budget
  /\ relRotationRodrigues' = InitialRotation
  /\ relTranslation' = InitialTranslation
  /\ clock' = 0
  /\ termination' = "NONE"
  /\ Tcw' = NoValue /\ rotAngle' = NoValue /\ transDist' = NoValue
  /\ validRatio' = NoValue /\ retval' = NoValue
  /\ Evaluate(InitialRotation, InitialTranslation, g)
  /\ cost' = Some(BlockCost(ResidualBlock(residual', gf)))
  /\ pc' = "iterate"
  /\ UNCHANGED <<imColor, K, invK, refKF, cameraPixelNoise2, cvDivByZero,
                 prevMoved, geomVars>>

\* One iteration: the cost is evaluated at a candidate pose, which replaces
\* the parameters when the step is accepted.  An iteration takes one time unit.
SolveIterate(r, t, g, gf) ==
  /\ pc = "iterate"
  /\ ~DeadlineReached(clock, max_seconds)
  /\ Evaluate(r, t, g)
  /\ LET c == BlockCost(ResidualBlock(residual', gf))
     IN  IF StepAccepted(c, cost[1])
         THEN /\ relRotationRodrigues' = r
              /\ relTranslation' = t
              /\ cost' = Some(c)
         ELSE UNCHANGED <<relRotationRodrigues, relTranslation, cost>>
  /\ clock' = clock + 1
  /\ UNCHANGED <<inputVars, pc, termination, outVars, prevMoved, geomVars>>

\* The solver finds its convergence test met before the deadline.
SolveConverge ==
  /\ pc = "iterate"
  /\ ~DeadlineReached(clock, max_seconds)
  /\ termination' = "CONVERGENCE"
  /\ pc' = "solved"
  /\ UNCHANGED <<inputVars, relRotationRodrigues, relTranslation, clock, cost,
                 evalVars, outVars, prevMoved, geomVars>>

\* The deadline has passed at an iteration boundary: the solver stops.
SolveTimeout ==
  /\ pc = "iterate"
  /\ DeadlineReached(clock, max_seconds)
  /\ termination' = "NO_CONVERGENCE"
  /\ pc' = "solved"
  /\ UNCHANGED <<inputVars, relRotationRodrigues, relTranslation, clock, cost,
                 evalVars, outVars, prevMoved, geomVars>>

\* After ceres::Solve: the world pose, the diagnostics (when the caller
\* passed somewhere to put them; the three pointers are given or left out
\* together) and the return value.
Finish(wantDiag) ==
  /\ pc = "solved"
  /\ LET Rrel == Rodrigues(relRotationRodrigues)
         Trel == TrelOf(Rrel, relTranslation)
     IN  /\ Tcw' = WorldPose(Trel, refKF.Tcw)
         /\ rotAngle' = IF wantDiag THEN Some(RotationAngle(Rrel)) ELSE NoValue
         /\ transDist' = IF wantDiag
                         THEN Some(TranslationDist(<<Trel[1][4], Trel[2][4], Trel[3][4]>>))
                         ELSE NoValue
         /\ validRatio' = IF wantDiag
                          THEN Some(DriverValidRatio(imColor, refKF, K, Rrel,
                                 <<Trel[1][4], Trel[2][4], Trel[3][4]>>, cvDivByZero))
                          ELSE NoValue
  /\ retval' = Some(NormalizedCost(cost[1]))
  /\ prevMoved' = (relRotationRodrigues # <<0, 0, 0>> \/ relTranslation # <<0, 0, 0>>)
  /\ evalPose' = NoValue /\ proj2d' = <<>> /\ proj2dRight' = <<>> /\ valid' = <<>>
  /\ reads' = {} /\ residual' = <<>> /\ meanCount' = NoValue
  /\ pc' = "idle"
  /\ UNCHANGED <<inputVars, solverVars, geomVars>>

Next ==
  \/ TakeResults
  \/ \E h \in Dims, w \in Dims : NewFrame(h, w)
  \/ \E S \in PointSets : NewKeyFrame(S)
  \/ \E budget \in 0..MaxBudget, g \in GarbageBytes, gf \in GarbageResiduals :
       Call(budget, g, gf)
  \/ \E p \in Poses, g \in GarbageBytes, gf \in GarbageResiduals :
       SolveIterate(p[1], p[2], g, gf)
  \/ SolveConverge
  \/ SolveTimeout
  \/ \E wantDiag \in BOOLEAN : Finish(wantDiag)

Spec == Init /\ [][Next]_vars

\* The thread inside EstimateCameraPose keeps running: a step of the call
\* that can be taken is taken.
CallStep ==
  \/ SolveConverge
  \/ SolveTimeout
  \/ \E wantDiag \in BOOLEAN : Finish(wantDiag)
  \/ \E p \in Poses, g \in GarbageBytes, gf \in GarbageResiduals :
       SolveIterate(p[1], p[2], g, gf)

FairSpec == Init /\ [][Next]_vars /\ WF_vars(CallStep)

\* ------------------------------------------------- line predicates: steps
estimatorVars == <<inputVars, pc, solverVars, evalVars, outVars, prevMoved>>

\* Another point is given for place k of (A, B, C, D).
MovePoint(k, q) ==
  /\ pts[k] # q
  /\ pts' = [pts EXCEPT ![k] = q]
  /\ isParallel' = NoValue
  /\ intersection' = NoValue
  /\ UNCHANGED estimatorVars

CallIsParallel ==
  /\ isParallel = NoValue
  /\ isParallel' = Some(IsParallel(pts[1], pts[2], pts[3], pts[4]))
  /\ UNCHANGED <<estimatorVars, pts, intersection>>

CallLineIntersection ==
  /\ intersection = NoValue
  /\ intersection' = Some(LineIntersection(pts[1], pts[2], pts[3], pts[4]))
  /\ UNCHANGED <<estimatorVars, pts, isParallel>>

InitGeom ==
  /\ EstimatorAtRest
  /\ cvDivByZero = "zero"
  /\ GeometryAtRest

NextGeom ==
  \/ \E k \in 1..4, q \in Grid : MovePoint(k, q)
  \/ CallIsParallel
  \/ CallLineIntersection

SpecGeom == InitGeom /\ [][NextGeom]_vars

\* ================================================================ claims
Evaluated == evalPose # NoValue

InsideImage(px) ==
  /\ px[1] >= 0 /\ px[1] < imColor.cols
  /\ px[2] >= 0 /\ px[2] < imColor.rows

BothInside(i) == InsideImage(proj2d[i]) /\ InsideImage(proj2dRight[i])

\* C1: every place of the new image a residual evaluation reads lies inside
\* the image, and is the primary or the shifted pixel of a point whose two
\* pixels both passed the bounds check.
C1_SamplesInBounds ==
  \A rc \in reads :
    /\ rc[1] >= 0 /\ rc[1] < imColor.rows
    /\ rc[2] >= 0 /\ rc[2] < imColor.cols
    /\ \E i \in DOMAIN proj2d :
         /\ BothInside(i)
         /\ rc = <<proj2d[i][2], proj2d[i][1]>> \/ rc = <<proj2dRight[i][2], proj2dRight[i][1]>>

\* An evaluation that sampled some point while another point had its primary
\* pixel inside the image and its shifted pixel outside.
C1_Witness ==
  /\ Evaluated
  /\ reads # {}
  /\ \E i \in DOMAIN proj2d : InsideImage(proj2d[i]) /\ ~InsideImage(proj2dRight[i])

\* C2: point i is marked valid exactly when its primary and its shifted pixel
\* both have 0 <= u < image columns and 0 <= v < image rows.
C2_ValidIffBothInBounds ==
  Evaluated =>
    /\ Len(valid) = NumPts(refKF)
    /\ \A i \in DOMAIN valid :
         valid[i] <=>
           /\ proj2d[i][1] >= 0 /\ proj2d[i][1] < imColor.cols
           /\ proj2d[i][2] >= 0 /\ proj2d[i][2] < imColor.rows
           /\ proj2dRight[i][1] >= 0 /\ proj2dRight[i][1] < imColor.cols
           /\ proj2dRight[i][2] >= 0 /\ proj2dRight[i][2] < imColor.rows

\* An evaluation on a non-square image with a valid point whose column or row
\* would fail the comparison against the other dimension, and an invalid point.
C2_Witness ==
  /\ Evaluated
  /\ imColor.rows # imColor.cols
  /\ \E i \in DOMAIN valid :
       valid[i] /\ (proj2d[i][1] >= imColor.rows \/ proj2d[i][2] >= imColor.cols)
  /\ \E i \in DOMAIN valid : ~valid[i]

\* The photometric error of point i against the image colour at pixel px.
ErrorAt(i, px) ==
  LET ref == refKF.mHighGradPtPixels[i]
      c   == imColor.data[px[2] + 1][px[1] + 1]
  IN  SqrtFx(SatSub8(ref[1], c[1]) * SatSub8(ref[1], c[1])
             + SatSub8(ref[2], c[2]) * SatSub8(ref[2], c[2])
             + SatSub8(ref[3], c[3]) * SatSub8(ref[3], c[3]))

\* The normalized residual res_i / var_i of a valid point i.
OwnResidual(i) ==
  LET e  == ErrorAt(i, proj2d[i])
      er == ErrorAt(i, proj2dRight[i])
  IN  (e * FxOne) \div ISqrt((er - e) * (er - e) + 2 * cameraPixelNoise2 * FxOne * FxOne)

ValidPoints == {i \in DOMAIN valid : valid[i]}

RECURSIVE SumOwn(_)
SumOwn(S) ==
  IF S = {} THEN 0 ELSE OwnResidual(Min(S)) + SumOwn(S \ {Min(S)})

\* C3: with at least one valid point the residual vector has one entry per
\* reference point; a valid point's entry is its own normalized residual and
\* an invalid point's entry is the mean of the valid points' normalized
\* residuals, whatever the sample buffers held.
C3_MeanSubstitution ==
  (Evaluated /\ ValidPoints # {}) =>
    /\ Len(residual) = NumPts(refKF)
    /\ \A i \in DOMAIN residual :
         residual[i] = IF valid[i] THEN OwnResidual(i)
                       ELSE SumOwn(ValidPoints) \div Cardinality(ValidPoints)

\* An evaluation with two valid points of different residuals and an invalid
\* point, whose entry is therefore neither of theirs.
C3_Witness ==
  /\ Evaluated
  /\ \E i, j, k \in DOMAIN residual :
       /\ valid[i] /\ valid[j] /\ ~valid[k]
       /\ residual[i] # residual[j]
       /\ residual[k] # residual[i] /\ residual[k] # residual[j]
       /\ residual[k] # 0

\* C4: when no point is valid the evaluation takes a path of its own and
\* takes no mean over the empty set of valid residuals.
C4_AllInvalidPath ==
  (Evaluated /\ ValidPoints = {}) => meanCount # Some(0)

MatVec(M, v) ==
  <<M[1][1] * v[1] + M[1][2] * v[2] + M[1][3] * v[3],
    M[2][1] * v[1] + M[2][2] * v[2] + M[2][3] * v[3],
    M[3][1] * v[1] + M[3][2] * v[2] + M[3][3] * v[3]>>

\* The pixel of point i under the final pose: K (R (depth invK h) + t),
\* divided by its third coordinate.
Reprojected(i) ==
  LET P == Vec3Add(MatVec(Rodrigues(relRotationRodrigues),
                          Vec3Scale(refKF.mHighGradPtDepth[i],
                                    MatVec(invK, refKF.mHighGradPtHomo2dCoord[i]))),
                   relTranslation)
      q == MatVec(K, P)
  IN  <<DivToInt(q[1], q[3], cvDivByZero), DivToInt(q[2], q[3], cvDivByZero)>>

Returned == pc = "idle" /\ Tcw # NoValue

\* C5: validRatio is the number of reference points whose pixel under the
\* final pose has 0 <= u < width and 0 <= v < height, divided by N.
C5_ValidRatioIsInsideFraction ==
  (Returned /\ validRatio # NoValue) =>
    validRatio =
      Some((Cardinality({i \in 1..NumPts(refKF) : InsideImage(Reprojected(i))}) * FxOne)
             \div NumPts(refKF))

\* C6: at the identity pose, with every reference point's own pixel inside
\* the image, validRatio is 1.0.
C6_IdentityGivesFullRatio ==
  (/\ Returned /\ validRatio # NoValue
   /\ relRotationRodrigues = <<0, 0, 0>> /\ relTranslation = <<0, 0, 0>>
   /\ \A i \in 1..NumPts(refKF) :
        InsideImage(<<refKF.mHighGradPtHomo2dCoord[i][1],
                      refKF.mHighGradPtHomo2dCoord[i][2]>>))
  => validRatio = Some(FxOne)

\* C7: the return value is the final cost divided by the number of points
\* of the reference keyframe.
C7_ReturnIsCostPerPoint ==
  Returned => retval = Some(cost[1] \div NumPts(refKF))

C9_StatelessCalls ==
  [][/\ (pc = "idle" /\ pc' # "idle") =>
          /\ relRotationRodrigues' = <<0, 0, 0>>
          /\ relTranslation' = <<0, 0, 0>>
          /\ evalPose' = <<<<0, 0, 0>>, <<0, 0, 0>>>>
          /\ clock' = 0 /\ termination' = "NONE"
          /\ Tcw' = NoValue /\ retval' = NoValue
     /\ (pc # "idle") =>
          UNCHANGED <<imColor, K, invK, refKF, cameraPixelNoise2, cvDivByZero>>
    ]_vars

\* A later call at its first evaluation, after an earlier call ended away
\* from the identity.
C9_Witness ==
  /\ pc = "iterate"
  /\ clock = 0
  /\ prevMoved
  /\ evalPose = <<<<0, 0, 0>>, <<0, 0, 0>>>>

\* C10: IsParallel is true exactly when the directions of AB and CD have a
\* zero cross product, it is unchanged by swapping the endpoints of either
\* line, and LineIntersection gives the parallel sentinel in the same cases.
C10_IsParallelIsSymmetric ==
  isParallel # NoValue =>
    LET A == pts[1]
        B == pts[2]
        C == pts[3]
        D == pts[4]
    IN  /\ isParallel[1] <=>
             ((B[1] - A[1]) * (D[2] - C[2]) - (B[2] - A[2]) * (D[1] - C[1]) = 0)
        /\ isParallel[1] <=> IsParallel(B, A, C, D)
        /\ isParallel[1] <=> IsParallel(A, B, D, C)
        /\ intersection # NoValue => (intersection[1].sentinel <=> isParallel[1])

====
